---- MODULE Spec2Model ----
(***************************************************************************)
(* Model of src/services/compliance.go: the Compliance_Report_Type option  *)
(* setters (Id, Mask, Filter, Limit, Offset) and the XML-RPC transport     *)
(* XmlRpcTransport.DoRequest with its process-wide client pool             *)
(* xmlRpcClients.                                                          *)
(*                                                                         *)
(* Go strings whose characters matter (masks) are sequences of one-        *)
(* character strings; JSON filter text is a sequence of lexical tokens;    *)
(* header keys and service names are sequences of name fragments, so that  *)
(* fmt.Sprintf("%sInitParameters", service) is a concatenation.            *)
(* A *int is an address into heap (0 is nil), so aliasing is visible.      *)
(***************************************************************************)
EXTENDS Integers, Sequences, FiniteSets, TLC

VARIABLES
    pool,       \* xmlRpcClients: service name -> client, or NoClient
    created,    \* per service, how many clients xmlrpc.NewClient has returned
    fatal,      \* the Go runtime aborted the process on a concurrent map access
    pc,         \* per caller: position inside DoRequest
    sess,       \* per caller: the *Session argument
    xport,      \* per caller: the receiver x (XmlRpcTransport.Timeout)
    service,    \* per caller: the service argument
    method,     \* per caller: the method argument
    args,       \* per caller: the args argument
    options,    \* per caller: the *sl.Options argument
    ok,         \* per caller: the local ok of the pool lookup
    client,     \* per caller: the local client
    err,        \* per caller: the error DoRequest returned
    sent,       \* per caller: what client.Call was invoked with, or NoCall
    heap,       \* the ints that *int option fields point to
    vals,       \* service values held by a caller of the option setters
    given       \* the arguments the caller gave the setters before DoRequest

vars == <<pool, created, fatal, pc, sess, xport, service, method, args,
          options, ok, client, err, sent, heap, vals, given>>

-----------------------------------------------------------------------------
(* Bounds *)

MaxTail       == 1   \* characters following the head of a mask string
MaxFilterLen  == 9   \* tokens in a filter string
MaxArgs       == 2   \* caller-supplied positional arguments
MaxAllocs     == 2   \* ints allocated by the setters in one run

-----------------------------------------------------------------------------
(* strings *)

\* strings.HasPrefix
HasPrefix(s, prefix) ==
    /\ Len(s) >= Len(prefix)
    /\ SubSeq(s, 1, Len(prefix)) = prefix

\* strings.Contains
Contains(s, substr) ==
    \E i \in 1..(Len(s) - Len(substr) + 1) :
        SubSeq(s, i, i + Len(substr) - 1) = substr

MaskPrefix == <<"m", "a", "s", "k", "[">>

\* fmt.Sprintf("mask[%s]", mask)
SprintfMask(mask) == MaskPrefix \o mask \o <<"]">>

\* fmt.Sprintf("%sInitParameters", service) and its siblings
SprintfKey(svc, suffix) == svc \o <<suffix>>

-----------------------------------------------------------------------------
(* sl.Options and the service value *)

Nil == 0

ZeroOptions ==
    [Id |-> Nil, Mask |-> <<>>, Filter |-> <<>>, Limit |-> Nil, Offset |-> Nil]

GetComplianceReportTypeService(s) == [Session |-> s, Options |-> ZeroOptions]

\* &v of a by-value parameter: a fresh cell
New(h, v) == [addr |-> Len(h) + 1, heap |-> Append(h, v)]

\* Each setter has a value receiver: r is a copy of the caller's struct,
\* and the result is a pair (returned value, heap after the call).
Id_aliasing(r, id, h) ==
    IF r.Options.Id # Nil
    THEN [r |-> r, heap |-> [h EXCEPT ![r.Options.Id] = id]]
    ELSE [r |-> [r EXCEPT !.Options.Id = New(h, id).addr], heap |-> New(h, id).heap]

Id(r, id, h) ==
    [r |-> [r EXCEPT !.Options.Id = New(h, id).addr], heap |-> New(h, id).heap]

Mask(r, mask) ==
    LET m == IF ~HasPrefix(mask, MaskPrefix) /\ Contains(mask, <<"[">>)
             THEN SprintfMask(mask)
             ELSE mask
    IN  [r EXCEPT !.Options.Mask = m]

Filter(r, filter) == [r EXCEPT !.Options.Filter = filter]

Limit(r, limit, h) ==
    [r |-> [r EXCEPT !.Options.Limit = New(h, limit).addr], heap |-> New(h, limit).heap]

Offset(r, offset, h) ==
    [r |-> [r EXCEPT !.Options.Offset = New(h, offset).addr], heap |-> New(h, offset).heap]

\* What a reader of the options sees: every pointer dereferenced.
Deref(h, a) == IF a = Nil THEN <<>> ELSE <<h[a]>>
View(o, h) ==
    [Id |-> Deref(h, o.Id), Mask |-> o.Mask, Filter |-> o.Filter,
     Limit |-> Deref(h, o.Limit), Offset |-> Deref(h, o.Offset)]

-----------------------------------------------------------------------------
(* encoding/json: json.Unmarshal(data, &map[string]interface{}) *)

StrTokens == {"\"a\"", "\"b\""}

JNull      == [kind |-> "null"]
JNum(t)    == [kind |-> "number", tok |-> t]
JStr(t)    == [kind |-> "string", tok |-> t]
JObj(m)    == [kind |-> "object", members |-> m]
JArr(e)    == [kind |-> "array", elems |-> e]
NoParse    == [ok |-> FALSE]
Parsed(v, n) == [ok |-> TRUE, val |-> v, next |-> n]

\* a Go map assignment m[k] = v, on a map held as a set of <<key, value>>
MapSet(m, k, v) == {e \in m : e[1] # k} \cup {<<k, v>>}

RECURSIVE ParseValue(_, _)
RECURSIVE ParseMembers(_, _, _)
RECURSIVE ParseElements(_, _, _)

\* the members of an object after "{" or ",": string ":" value, then "," or "}"
ParseMembers(t, i, acc) ==
    IF i + 1 > Len(t) \/ t[i] \notin StrTokens \/ t[i + 1] # ":"
    THEN NoParse
    ELSE LET v == ParseValue(t, i + 2) IN
         IF ~v.ok \/ v.next > Len(t) THEN NoParse
         ELSE IF t[v.next] = "}" THEN Parsed(JObj(MapSet(acc, t[i], v.val)), v.next + 1)
         ELSE IF t[v.next] = "," THEN ParseMembers(t, v.next + 1, MapSet(acc, t[i], v.val))
         ELSE NoParse

\* the elements of an array after "[" or ","
ParseElements(t, i, acc) ==
    LET v == ParseValue(t, i) IN
    IF ~v.ok \/ v.next > Len(t) THEN NoParse
    ELSE IF t[v.next] = "]" THEN Parsed(JArr(Append(acc, v.val)), v.next + 1)
    ELSE IF t[v.next] = "," THEN ParseElements(t, v.next + 1, Append(acc, v.val))
    ELSE NoParse

ParseValue(t, i) ==
    IF i > Len(t) THEN NoParse
    ELSE IF t[i] = "null" THEN Parsed(JNull, i + 1)
    ELSE IF t[i] = "1" THEN Parsed(JNum(t[i]), i + 1)
    ELSE IF t[i] \in StrTokens THEN Parsed(JStr(t[i]), i + 1)
    ELSE IF t[i] = "{" THEN
        IF i + 1 <= Len(t) /\ t[i + 1] = "}" THEN Parsed(JObj({}), i + 2)
        ELSE ParseMembers(t, i + 1, {})
    ELSE IF t[i] = "[" THEN
        IF i + 1 <= Len(t) /\ t[i + 1] = "]" THEN Parsed(JArr(<<>>), i + 2)
        ELSE ParseElements(t, i + 1, <<>>)
    ELSE NoParse

\* the whole input is one JSON value (json.checkValid)
ValidJSON(data) == ParseValue(data, 1).ok /\ ParseValue(data, 1).next = Len(data) + 1

NilMap == [kind |-> "nilmap"]

\* json.Unmarshal into a map[string]interface{}: a syntax error for text that
\* is not JSON, the object for an object, a nil map for the literal null, and
\* an UnmarshalTypeError for any other JSON value.
Unmarshal(data) ==
    IF ~ValidJSON(data) THEN [err |-> TRUE]
    ELSE LET v == ParseValue(data, 1).val IN
         IF v.kind = "object" THEN [err |-> FALSE, objFilter |-> v]
         ELSE IF v.kind = "null" THEN [err |-> FALSE, objFilter |-> NilMap]
         ELSE [err |-> TRUE]

-----------------------------------------------------------------------------
(* the XML-RPC transport *)

DefaultXmlRpcTimeout == 30

NoClient == [serial |-> <<>>]
NoCall   == [called |-> FALSE]

NoErr     == "nil"
ErrCreate == "Could not create an xmlrpc client"
ErrFilter == "Error encoding object filter"
ErrCall   == "xmlrpc call failed"

\* endpoints that url.Parse inside xmlrpc.NewClient rejects
BadEndpoints == {"://bad"}

\* xmlrpc.NewClient(requrl, transport, timeout); serial is the identity of
\* the *xmlrpc.Client it returns
NewClient(requrl, roundTripper, timeout, serial) ==
    IF requrl[1] \in BadEndpoints
    THEN [err |-> TRUE]
    ELSE [err |-> FALSE,
          client |-> [serial |-> serial, url |-> requrl,
                      transport |-> roundTripper, timeout |-> timeout]]

\* the body of "if !ok" up to the error check
CreateClient(s, x, svc, serial) ==
    LET roundTripper == IF s.Debug THEN "debugRoundTripper" ELSE "nil"
        timeout == IF x.Timeout # 0 THEN x.Timeout ELSE DefaultXmlRpcTimeout
    IN  NewClient(<<s.Endpoint, svc>>, roundTripper, timeout, serial)

\* headers[k] = v
Put(h, k, v) == [key \in (DOMAIN h) \cup {k} |-> IF key = k THEN v ELSE h[key]]

Authenticate(s) ==
    [key \in {<<"authenticate">>} |-> [username |-> s.UserName, apiKey |-> s.APIKey]]
WithInitParameters_fixedKey(hd, svc, o, h) ==
    IF o.Id # Nil
    THEN Put(hd, <<"InitParameters">>, [id |-> h[o.Id]])
    ELSE hd

WithInitParameters(hd, svc, o, h) ==
    IF o.Id # Nil
    THEN Put(hd, SprintfKey(svc, "InitParameters"), [id |-> h[o.Id]])
    ELSE hd
HeaderMask_bracketOnly(mask) ==
    IF ~HasPrefix(mask, MaskPrefix) /\ Contains(mask, <<"[">>)
    THEN SprintfMask(mask)
    ELSE mask

HeaderMask(mask) ==
    IF ~HasPrefix(mask, MaskPrefix) THEN SprintfMask(mask) ELSE mask

WithObjectMask(hd, o) ==
    IF o.Mask # <<>>
    THEN Put(hd, <<"SoftLayer_ObjectMask">>, [mask |-> HeaderMask(o.Mask)])
    ELSE hd

WithObjectFilter(hd, svc, o) ==
    IF o.Filter # <<>>
    THEN Put(hd, SprintfKey(svc, "ObjectFilter"), Unmarshal(o.Filter).objFilter)
    ELSE hd
WithResultLimit_needsOffset(hd, o, h) ==
    IF o.Limit # Nil /\ o.Offset # Nil
    THEN Put(hd, <<"resultLimit">>, [limit |-> h[o.Limit], offset |-> h[o.Offset]])
    ELSE hd

WithResultLimit(hd, o, h) ==
    IF o.Limit # Nil
    THEN LET offset == IF o.Offset # Nil THEN h[o.Offset] ELSE 0
         IN  Put(hd, <<"resultLimit">>, [limit |-> h[o.Limit], offset |-> offset])
    ELSE hd
BuildHeaders_errIgnored(s, svc, o, h) ==
    [err |-> NoErr,
     headers |->
       WithResultLimit(
         WithObjectMask(
           WithInitParameters(Authenticate(s), svc, o, h), o), o, h)]

\* the headers of the request, or the filter error
BuildHeaders(s, svc, o, h) ==
    IF o.Filter # <<>> /\ Unmarshal(o.Filter).err
    THEN [err |-> ErrFilter]
    ELSE [err |-> NoErr,
          headers |->
            WithResultLimit(
              WithObjectFilter(
                WithObjectMask(
                  WithInitParameters(Authenticate(s), svc, o, h), o), svc, o), o, h)]
Params_reversed(headers, a) ==
    <<[headers |-> headers]>> \o [i \in 1..Len(a) |-> a[Len(a) + 1 - i]]

\* the xmlrpc parameter array
Params(headers, a) == <<[headers |-> headers]>> \o a

\* client.Call(method, params, pResult)
Call(c, m, params) == [called |-> TRUE, client |-> c, method |-> m, params |-> params]

\* what the remote exchange may return
CallResults == {NoErr, ErrCall}

\* DoRequest run from start to end with no other caller interleaved
DoRequest(pl, cr, s, x, svc, m, a, o, h, callErr) ==
    LET hit == pl[svc] # NoClient
        nc  == CreateClient(s, x, svc, <<svc, cr[svc] + 1>>)
    IN  IF ~hit /\ nc.err
        THEN [pool |-> pl, created |-> cr, ok |-> hit, client |-> NoClient,
              err |-> ErrCreate, sent |-> NoCall]
        ELSE LET c   == IF hit THEN pl[svc] ELSE nc.client
                 pl2 == IF hit THEN pl ELSE [pl EXCEPT ![svc] = c]
                 cr2 == IF hit THEN cr ELSE [cr EXCEPT ![svc] = @ + 1]
                 b   == BuildHeaders(s, svc, o, h)
             IN  IF b.err # NoErr
                 THEN [pool |-> pl2, created |-> cr2, ok |-> hit, client |-> c,
                       err |-> b.err, sent |-> NoCall]
                 ELSE [pool |-> pl2, created |-> cr2, ok |-> hit, client |-> c,
                       err |-> callErr, sent |-> Call(c, m, Params(b.headers, a))]

-----------------------------------------------------------------------------
(* inputs *)

\* the two goroutines that may be inside DoRequest at once
Callers == {"c1", "c2"}

Services == {<<"SoftLayer_Compliance_Report_Type">>, <<"Widget">>}

Sessions ==
    {[Endpoint |-> "https://api.example.com", UserName |-> "u", APIKey |-> "k",
      Debug |-> FALSE],
     [Endpoint |-> "https://alt.example.com", UserName |-> "v", APIKey |-> "j",
      Debug |-> TRUE],
     [Endpoint |-> "://bad", UserName |-> "u", APIKey |-> "k", Debug |-> FALSE]}

Transports == {[Timeout |-> 0], [Timeout |-> 5]}

\* the two service values a caller of the setters holds: any setter may take
\* either as its receiver and its result may be assigned to either
Held == {"a", "b"}

\* the caller gave no setter an argument
NoneGiven == [id |-> <<>>, mask |-> <<>>, filter |-> <<>>, limit |-> <<>>, offset |-> <<>>]

ZeroSession == [Endpoint |-> "", UserName |-> "", APIKey |-> "", Debug |-> FALSE]

-----------------------------------------------------------------------------
(* concurrent callers of DoRequest *)

\* filters the concurrent callers pass: an object, truncated text
PoolFilters == {<<"{", "}">>, <<"{">>}

\* the session and transport a concurrent caller comes with
PoolConfigs ==
    {c \in Sessions \X Transports :
        (c[2].Timeout # 0) <=> c[1].Debug}

IdleLocals(p) ==
    /\ sess' = [sess EXCEPT ![p] = ZeroSession]
    /\ xport' = [xport EXCEPT ![p] = [Timeout |-> 0]]
    /\ service' = [service EXCEPT ![p] = <<>>]
    /\ method' = [method EXCEPT ![p] = ""]
    /\ args' = [args EXCEPT ![p] = <<>>]
    /\ options' = [options EXCEPT ![p] = ZeroOptions]
    /\ ok' = [ok EXCEPT ![p] = FALSE]
    /\ client' = [client EXCEPT ![p] = NoClient]
    /\ err' = [err EXCEPT ![p] = NoErr]
    /\ sent' = [sent EXCEPT ![p] = NoCall]

\* a goroutine enters DoRequest
Invoke(p) ==
    /\ ~fatal
    /\ pc[p] = "idle"
    /\ \E c \in PoolConfigs, svc \in Services, f \in PoolFilters :
          /\ sess' = [sess EXCEPT ![p] = c[1]]
          /\ xport' = [xport EXCEPT ![p] = c[2]]
          /\ service' = [service EXCEPT ![p] = svc]
          /\ options' = [options EXCEPT ![p] = Filter(GetComplianceReportTypeService(c[1]), f).Options]
    /\ method' = [method EXCEPT ![p] = "getObject"]
    /\ pc' = [pc EXCEPT ![p] = "lookup"]
    /\ UNCHANGED <<pool, created, fatal, args, ok, client, err, sent, heap, vals, given>>

\* client, ok := xmlRpcClients[service]
Lookup(p) ==
    /\ ~fatal
    /\ pc[p] = "lookup"
    /\ ok' = [ok EXCEPT ![p] = pool[service[p]] # NoClient]
    /\ client' = [client EXCEPT ![p] = pool[service[p]]]
    /\ pc' = [pc EXCEPT ![p] = IF pool[service[p]] # NoClient THEN "build" ELSE "create"]
    /\ UNCHANGED <<pool, created, fatal, sess, xport, service, method, args,
                   options, err, sent, heap, vals, given>>
Create_storesFailure(p) ==
    /\ ~fatal
    /\ pc[p] = "create"
    /\ LET nc == CreateClient(sess[p], xport[p], service[p],
                              <<service[p], created[service[p]] + 1>>)
       IN  IF nc.err
           THEN /\ err' = [err EXCEPT ![p] = ErrCreate]
                /\ pc' = [pc EXCEPT ![p] = "done"]
                /\ pool' = [pool EXCEPT ![service[p]] = [serial |-> <<"nil">>]]
                /\ UNCHANGED <<client, created>>
           ELSE /\ client' = [client EXCEPT ![p] = nc.client]
                /\ created' = [created EXCEPT ![service[p]] = @ + 1]
                /\ pc' = [pc EXCEPT ![p] = "store"]
                /\ UNCHANGED <<err, pool>>
    /\ UNCHANGED <<fatal, sess, xport, service, method, args, options,
                   ok, sent, heap, vals, given>>

\* the body of "if !ok" up to the pool insert
Create(p) ==
    /\ ~fatal
    /\ pc[p] = "create"
    /\ LET nc == CreateClient(sess[p], xport[p], service[p],
                              <<service[p], created[service[p]] + 1>>)
       IN  IF nc.err
           THEN /\ err' = [err EXCEPT ![p] = ErrCreate]
                /\ pc' = [pc EXCEPT ![p] = "done"]
                /\ UNCHANGED <<client, created>>
           ELSE /\ client' = [client EXCEPT ![p] = nc.client]
                /\ created' = [created EXCEPT ![service[p]] = @ + 1]
                /\ pc' = [pc EXCEPT ![p] = "store"]
                /\ UNCHANGED err
    /\ UNCHANGED <<pool, fatal, sess, xport, service, method, args, options,
                   ok, sent, heap, vals, given>>
Store_afterFilterCheck(p) ==
    /\ ~fatal
    /\ pc[p] = "store"
    /\ IF BuildHeaders(sess[p], service[p], options[p], heap).err # NoErr
       THEN /\ err' = [err EXCEPT ![p] = ErrFilter]
            /\ pc' = [pc EXCEPT ![p] = "done"]
            /\ UNCHANGED pool
       ELSE /\ pool' = [pool EXCEPT ![service[p]] = client[p]]
            /\ pc' = [pc EXCEPT ![p] = "build"]
            /\ UNCHANGED err
    /\ UNCHANGED <<created, fatal, sess, xport, service, method, args, options,
                   ok, client, sent, heap, vals, given>>

\* xmlRpcClients[service] = client
Store(p) ==
    /\ ~fatal
    /\ pc[p] = "store"
    /\ pool' = [pool EXCEPT ![service[p]] = client[p]]
    /\ pc' = [pc EXCEPT ![p] = "build"]
    /\ UNCHANGED <<created, fatal, sess, xport, service, method, args, options,
                   ok, client, err, sent, heap, vals, given>>

\* the headers, the parameter array and client.Call
Dispatch(p) ==
    /\ ~fatal
    /\ pc[p] = "build"
    /\ LET b == BuildHeaders(sess[p], service[p], options[p], heap)
       IN  IF b.err # NoErr
           THEN /\ err' = [err EXCEPT ![p] = b.err]
                /\ UNCHANGED sent
           ELSE /\ sent' = [sent EXCEPT ![p] =
                               Call(client[p], method[p], Params(b.headers, args[p]))]
                /\ \E e \in CallResults : err' = [err EXCEPT ![p] = e]
    /\ pc' = [pc EXCEPT ![p] = "done"]
    /\ UNCHANGED <<pool, created, fatal, sess, xport, service, method, args,
                   options, ok, client, heap, vals, given>>

\* DoRequest has returned and the goroutine is free for another call
Return(p) ==
    /\ ~fatal
    /\ pc[p] = "done"
    /\ pc' = [pc EXCEPT ![p] = "idle"]
    /\ IdleLocals(p)
    /\ UNCHANGED <<pool, created, fatal, heap, vals, given>>

\* An unsynchronised map write overlapping another goroutine's map access:
\* the runtime may detect it and abort ("concurrent map writes",
\* "concurrent map read and map write"), or the accesses may go through.
ConcurrentMapAccess ==
    /\ ~fatal
    /\ \E p \in Callers, q \in Callers :
          /\ p # q
          /\ pc[p] = "store"
          /\ pc[q] \in {"lookup", "store"}
    /\ fatal' = TRUE
    /\ UNCHANGED <<pool, created, pc, sess, xport, service, method, args,
                   options, ok, client, err, sent, heap, vals, given>>

Init ==
    /\ pool = [svc \in Services |-> NoClient]
    /\ created = [svc \in Services |-> 0]
    /\ fatal = FALSE
    /\ pc \in [Callers -> {"idle"}]
    /\ sess \in [Callers -> {ZeroSession}]
    /\ xport \in [Callers -> {[Timeout |-> 0]}]
    /\ service \in [Callers -> {<<>>}]
    /\ method \in [Callers -> {""}]
    /\ args \in [Callers -> {<<>>}]
    /\ options \in [Callers -> {ZeroOptions}]
    /\ ok \in [Callers -> {FALSE}]
    /\ client \in [Callers -> {NoClient}]
    /\ err \in [Callers -> {NoErr}]
    /\ sent \in [Callers -> {NoCall}]
    /\ heap = <<>>
    /\ vals = [i \in Held |-> GetComplianceReportTypeService(ZeroSession)]
    /\ given = NoneGiven

-----------------------------------------------------------------------------
(* one caller: build the options with the setters, then DoRequest *)

Chars == {"[", "i"}
MaskHeads == {<<>>, MaskPrefix, <<"m", "a", "s", "k">>}
Strings(n) == UNION {[1..k -> Chars] : k \in 0..n}
Masks == {h \o t : h \in MaskHeads, t \in Strings(MaxTail)}

\* well-formed JSON texts; the filters are their prefixes and their tails
FilterExemplars ==
    {<<"null">>, <<"1">>, <<"[", "1", "]">>, <<"{", "}">>,
     <<"{", "\"a\"", ":", "1", "}">>,
     <<"{", "\"a\"", ":", "{", "}", "}">>,
     <<"{", "\"a\"", ":", "1", ",", "\"a\"", ":", "null", "}">>,
     <<"{", "\"a\"", ":", "1", ",", "\"b\"", ":", "[", "1", "]", "}">>}
Prefixes(e) == {SubSeq(e, 1, k) : k \in 0..Len(e)}
Filters ==
    {f \in UNION {Prefixes(e) \cup {Tail(e)} : e \in FilterExemplars} :
        Len(f) <= MaxFilterLen}

ArgValues == {"x", "y"}
ArgSeqs == UNION {[1..k -> ArgValues] : k \in 0..MaxArgs}

\* an int option the caller may leave unset
OptInts(S) == {<<>>} \cup {<<v>> : v \in S}

\* sessions that differ in their credentials only
EnvSessions ==
    {s \in Sessions : s.Endpoint = "https://api.example.com"}
    \cup {[Endpoint |-> "https://api.example.com", UserName |-> "v", APIKey |-> "j",
           Debug |-> FALSE]}

\* the filters of the callers whose masks and arguments vary
EnvFilters == {<<>>, <<"{", "\"a\"", ":", "1", "}">>, <<"{">>}

\* GetComplianceReportTypeService(s).Id(..).Mask(..).Filter(..).Limit(..).Offset(..),
\* each setter called only when the caller gave its argument
Build(s, g) ==
    LET r0 == [r |-> GetComplianceReportTypeService(s), heap |-> <<>>]
        r1 == IF g.id # <<>> THEN Id(r0.r, g.id[1], r0.heap) ELSE r0
        r2 == [r |-> Filter(Mask(r1.r, g.mask), g.filter), heap |-> r1.heap]
        r3 == IF g.limit # <<>> THEN Limit(r2.r, g.limit[1], r2.heap) ELSE r2
    IN  IF g.offset # <<>> THEN Offset(r3.r, g.offset[1], r3.heap) ELSE r3

\* caller c1 builds its options and runs DoRequest with no other caller about
Request(MaskSet, FilterSet, ArgSet) ==
    /\ pc["c1"] = "idle"
    /\ \E s \in EnvSessions, svc \in Services, a \in ArgSet, e \in CallResults,
          id \in OptInts({42}), mask \in MaskSet, filter \in FilterSet,
          limit \in OptInts({2}), offset \in OptInts({1}) :
          LET g == [id |-> id, mask |-> mask, filter |-> filter,
                    limit |-> limit, offset |-> offset]
              b == Build(s, g)
              d == DoRequest(pool, created, s, [Timeout |-> 0], svc, "getObject",
                             a, b.r.Options, b.heap, e)
          IN  /\ given' = g
              /\ heap' = b.heap
              /\ sess' = [sess EXCEPT !["c1"] = s]
              /\ service' = [service EXCEPT !["c1"] = svc]
              /\ method' = [method EXCEPT !["c1"] = "getObject"]
              /\ args' = [args EXCEPT !["c1"] = a]
              /\ options' = [options EXCEPT !["c1"] = b.r.Options]
              /\ pool' = d.pool
              /\ created' = d.created
              /\ ok' = [ok EXCEPT !["c1"] = d.ok]
              /\ client' = [client EXCEPT !["c1"] = d.client]
              /\ err' = [err EXCEPT !["c1"] = d.err]
              /\ sent' = [sent EXCEPT !["c1"] = d.sent]
    /\ pc' = [pc EXCEPT !["c1"] = "done"]
    /\ UNCHANGED <<fatal, xport, vals>>

\* the call has returned; the caller drops its options
Finish ==
    /\ pc["c1"] = "done"
    /\ pc' = [pc EXCEPT !["c1"] = "idle"]
    /\ IdleLocals("c1")
    /\ heap' = <<>>
    /\ given' = NoneGiven
    /\ UNCHANGED <<pool, created, fatal, vals>>

\* masks and arguments vary
NextEnv == Request(Masks, EnvFilters, ArgSeqs) \/ Finish

SpecEnv == Init /\ [][NextEnv]_vars

\* filters vary
NextFilter == Request({<<>>, <<"i">>}, Filters, {<<>>}) \/ Finish

SpecFilter == Init /\ [][NextFilter]_vars

-----------------------------------------------------------------------------
(* a caller of the option setters: vals[j] = vals[i].Setter(v) *)

SetterInts    == {1, 2}
SetterMasks   == {<<"i", "[", "i", "]">>}
SetterFilters == {<<"{", "}">>}

SetId(i, j, id) ==
    /\ Len(heap) < MaxAllocs
    /\ vals' = [vals EXCEPT ![j] = Id(vals[i], id, heap).r]
    /\ heap' = Id(vals[i], id, heap).heap
    /\ UNCHANGED <<pool, created, fatal, pc, sess, xport, service, method, args,
                   options, ok, client, err, sent, given>>

SetMask(i, j, mask) ==
    /\ vals' = [vals EXCEPT ![j] = Mask(vals[i], mask)]
    /\ UNCHANGED <<pool, created, fatal, pc, sess, xport, service, method, args,
                   options, ok, client, err, sent, heap, given>>

SetFilter(i, j, filter) ==
    /\ vals' = [vals EXCEPT ![j] = Filter(vals[i], filter)]
    /\ UNCHANGED <<pool, created, fatal, pc, sess, xport, service, method, args,
                   options, ok, client, err, sent, heap, given>>

SetLimit(i, j, limit) ==
    /\ Len(heap) < MaxAllocs
    /\ vals' = [vals EXCEPT ![j] = Limit(vals[i], limit, heap).r]
    /\ heap' = Limit(vals[i], limit, heap).heap
    /\ UNCHANGED <<pool, created, fatal, pc, sess, xport, service, method, args,
                   options, ok, client, err, sent, given>>

SetOffset(i, j, offset) ==
    /\ Len(heap) < MaxAllocs
    /\ vals' = [vals EXCEPT ![j] = Offset(vals[i], offset, heap).r]
    /\ heap' = Offset(vals[i], offset, heap).heap
    /\ UNCHANGED <<pool, created, fatal, pc, sess, xport, service, method, args,
                   options, ok, client, err, sent, given>>

NextOpt ==
    \/ \E i \in Held, j \in Held, v \in SetterInts : SetId(i, j, v)
    \/ \E i \in Held, j \in Held, m \in SetterMasks : SetMask(i, j, m)
    \/ \E i \in Held, j \in Held, f \in SetterFilters : SetFilter(i, j, f)
    \/ \E i \in Held, j \in Held : SetLimit(i, j, 2)
    \/ \E i \in Held, j \in Held : SetOffset(i, j, 1)

SpecOpt == Init /\ [][NextOpt]_vars

Next ==
    \/ \E p \in Callers : Invoke(p)
    \/ \E p \in Callers : Lookup(p)
    \/ \E p \in Callers : Create(p)
    \/ \E p \in Callers : Store(p)
    \/ \E p \in Callers : Dispatch(p)
    \/ \E p \in Callers : Return(p)
    \/ ConcurrentMapAccess

Spec == Init /\ [][Next]_vars

-----------------------------------------------------------------------------
(* Properties *)

Other(p) == CHOOSE q \in Callers : q # p

\* the header map of caller c1's outbound request
Headers == sent["c1"].params[1].headers

KeyMask        == <<"SoftLayer_ObjectMask">>
KeyResultLimit == <<"resultLimit">>
KeyAuth        == <<"authenticate">>

\* C1: when two callers run DoRequest concurrently for a service that is not
\* yet in the pool, exactly one client is created for it and both calls are
\* dispatched through that one client.
C1_OneClientForBoth ==
    \A p \in Callers, q \in Callers :
        (/\ p # q
         /\ pc[p] = "done" /\ pc[q] = "done"
         /\ service[p] = service[q]
         /\ ~ok[p] /\ ~ok[q]
         /\ sent[p].called /\ sent[q].called)
        => /\ sent[p].client = sent[q].client
           /\ created[service[p]] = 1

IsObjectText(f) == ValidJSON(f) /\ ParseValue(f, 1).val.kind = "object"

C4_CreateFailure ==
    [][\A p \in Callers :
          /\ (pc[p] = "create" /\ pc'[p] = "done")
             => /\ err'[p] = ErrCreate
                /\ sent'[p] = NoCall
                /\ pool' = pool
          /\ (pc[p] = "lookup" /\ pc'[p] # "lookup" /\ pool[service[p]] = NoClient)
             => pc'[p] = "create"]_vars

C4_Witness ==
    \E p \in Callers :
        /\ pc[p] = "done" /\ err[p] = ErrCreate
        /\ pool[service[p]] = NoClient
        /\ \E svc \in Services : pool[svc] # NoClient
        /\ pc[Other(p)] = "create" /\ service[Other(p)] = service[p]

\* C5: once the pool has a client for a service, no step removes or replaces
\* that entry.
C5_EntryNeverReplaced ==
    [][\A svc \in Services : pool[svc] # NoClient => pool'[svc] = pool[svc]]_vars

\* C6: with Limit set and Offset unset resultLimit is {limit, offset 0}; with
\* both set it carries both; with Limit unset there is no resultLimit header.
C6_ResultLimit ==
    (pc["c1"] = "done" /\ sent["c1"].called)
    => IF given.limit = <<>>
       THEN KeyResultLimit \notin DOMAIN Headers
       ELSE /\ KeyResultLimit \in DOMAIN Headers
            /\ Headers[KeyResultLimit] =
                 [limit |-> given.limit[1],
                  offset |-> IF given.offset = <<>> THEN 0 ELSE given.offset[1]]

C6_Witness ==
    /\ pc["c1"] = "done" /\ sent["c1"].called
    /\ given.limit = <<2>> /\ given.offset = <<>>
    /\ Headers[KeyResultLimit].offset = 0

\* C7: the headers have the key <service>InitParameters with body {id: v}
\* exactly when Id is set to v, and no key ending in InitParameters otherwise.
C7_InitParameters ==
    (pc["c1"] = "done" /\ sent["c1"].called)
    => LET ending == {k \in DOMAIN Headers : k[Len(k)] = "InitParameters"} IN
       IF given.id = <<>>
       THEN ending = {}
       ELSE /\ ending = {service["c1"] \o <<"InitParameters">>}
            /\ Headers[service["c1"] \o <<"InitParameters">>] = [id |-> given.id[1]]

C7_Witness ==
    /\ pc["c1"] = "done" /\ sent["c1"].called
    /\ given.id = <<42>>
    /\ service["c1"] = <<"Widget">>
    /\ Headers[<<"Widget", "InitParameters">>] = [id |-> 42]

\* C8: the outbound parameters are the header structure, whose authenticate
\* entry holds the session's username and apiKey, followed by the caller's
\* args in order and unmodified: 1 + len(args) elements.
C8_Params ==
    (pc["c1"] = "done" /\ sent["c1"].called)
    => /\ Len(sent["c1"].params) = 1 + Len(args["c1"])
       /\ KeyAuth \in DOMAIN Headers
       /\ Headers[KeyAuth] =
            [username |-> sess["c1"].UserName, apiKey |-> sess["c1"].APIKey]
       /\ \A i \in 1..Len(args["c1"]) : sent["c1"].params[i + 1] = args["c1"][i]

C8_Witness ==
    /\ pc["c1"] = "done" /\ sent["c1"].called
    /\ args["c1"] = <<"x", "y">>
    /\ sess["c1"].UserName = "v"
    /\ Len(sent["c1"].params) = 3

\* what the options of held value k show
Shown(k) == View(vals[k].Options, heap)

\* value j now shows what value i showed with one field changed, and every
\* other held value shows what it showed before
OnlyChanges(i, j, expected) ==
    /\ View(vals'[j].Options, heap') = expected
    /\ vals'[j].Session = vals[i].Session
    /\ \A k \in Held \ {j} : View(vals'[k].Options, heap') = Shown(k)

\* C9: each setter returns a value with the one field updated and every other
\* field as in the receiver, and leaves the receiver and every other value
\* derived from it as they were.
C9_SettersCopy ==
    [][\A i \in Held, j \in Held :
          /\ \A v \in SetterInts :
                SetId(i, j, v) => OnlyChanges(i, j, [Shown(i) EXCEPT !.Id = <<v>>])
          /\ \A m \in SetterMasks :
                SetMask(i, j, m) =>
                    \E w \in {m, MaskPrefix \o m \o <<"]">>} :
                        OnlyChanges(i, j, [Shown(i) EXCEPT !.Mask = w])
          /\ \A f \in SetterFilters :
                SetFilter(i, j, f) => OnlyChanges(i, j, [Shown(i) EXCEPT !.Filter = f])
          /\ SetLimit(i, j, 2) => OnlyChanges(i, j, [Shown(i) EXCEPT !.Limit = <<2>>])
          /\ SetOffset(i, j, 1) => OnlyChanges(i, j, [Shown(i) EXCEPT !.Offset = <<1>>])
      ]_vars

C9_Witness ==
    /\ Shown("a").Id = <<1>>
    /\ Shown("b").Id = <<2>>
    /\ Shown("a").Mask = <<>>
    /\ Shown("b").Mask # <<>>

\* C10: a DoRequest that fails on its filter has already put its client in the
\* pool, and a DoRequest that finds the entry uses it and creates nothing.
C10_PoolBeforeEnvelope ==
    /\ [](\A p \in Callers :
            (pc[p] = "done" /\ err[p] = ErrFilter)
            => /\ pool[service[p]] # NoClient
               /\ (~ok[p] /\ created[service[p]] = 1) => pool[service[p]] = client[p])
    /\ [][\A p \in Callers :
            (pc[p] = "lookup" /\ pc'[p] # "lookup" /\ pool[service[p]] # NoClient)
            => /\ pc'[p] = "build"
               /\ client'[p] = pool[service[p]]
               /\ created' = created
               /\ pool' = pool]_vars

C10_Witness ==
    \E p \in Callers :
        /\ pc[p] = "done" /\ err[p] = ErrFilter /\ ~ok[p]
        /\ created[service[p]] = 1
        /\ pool[service[p]] = client[p]
        /\ pc[Other(p)] = "build" /\ ok[Other(p)]
        /\ service[Other(p)] = service[p]
        /\ client[Other(p)] = client[p]

====
